---- MODULE Spec2Model ----
(***************************************************************************)
(* Model of the model-source registry of src/main.py: the two collections  *)
(* 'modelfile' and 'modelconfig' of the document store, and the handlers   *)
(* upload_model, set_model_url, get_active_model and list_models, each     *)
(* split at its store calls so that requests can interleave.               *)
(***************************************************************************)
EXTENDS Integers, Sequences, FiniteSets, TLC

\* ------------------------------------------------------------------ bounds
\* activation requests that write to the store in a behaviour; all of them
\* can be running at the same time
NumProcs == 2
\* records already in 'modelfile' when the process starts with a used store
HistMax == 11

\* the activation requests, numbered in the order of their first store write
Procs == 1..NumProcs

None == "None"

\* ----------------------------------------------------------------- strings
\* Text is a sequence of one-character strings.
LowerChar(c) ==
    CASE c = "Z" -> "z" [] c = "I" -> "i" [] c = "P" -> "p"
      [] c = "M" -> "m" [] c = "H" -> "h" [] OTHER -> c

Lower(s) == [i \in 1..Len(s) |-> LowerChar(s[i])]

EndsWith(s, suf) ==
    /\ Len(s) >= Len(suf)
    /\ SubSeq(s, Len(s) - Len(suf) + 1, Len(s)) = suf

DotZip == <<".", "z", "i", "p">>

\* file.filename.lower().endswith('.zip')
IsZipName(fn) == EndsWith(Lower(fn), DotZip)

\* base64.b64encode(content).decode('utf-8'); bytes are 0..255
B64Alphabet ==
    << "A","B","C","D","E","F","G","H","I","J","K","L","M","N","O","P",
       "Q","R","S","T","U","V","W","X","Y","Z","a","b","c","d","e","f",
       "g","h","i","j","k","l","m","n","o","p","q","r","s","t","u","v",
       "w","x","y","z","0","1","2","3","4","5","6","7","8","9","+","/" >>

B64Char(n) == B64Alphabet[n + 1]

RECURSIVE B64Encode(_)
B64Encode(bytes) ==
    IF Len(bytes) = 0 THEN <<>>
    ELSE IF Len(bytes) = 1 THEN
        << B64Char(bytes[1] \div 4), B64Char((bytes[1] % 4) * 16), "=", "=" >>
    ELSE IF Len(bytes) = 2 THEN
        << B64Char(bytes[1] \div 4),
           B64Char((bytes[1] % 4) * 16 + bytes[2] \div 16),
           B64Char((bytes[2] % 16) * 4), "=" >>
    ELSE
        << B64Char(bytes[1] \div 4),
           B64Char((bytes[1] % 4) * 16 + bytes[2] \div 16),
           B64Char((bytes[2] % 16) * 4 + bytes[3] \div 64),
           B64Char(bytes[3] % 64) >>
        \o B64Encode(SubSeq(bytes, 4, Len(bytes)))

\* str(ObjectId): the identifier in hexadecimal
HexDigits == << "0","1","2","3","4","5","6","7","8","9","a","b","c","d","e","f" >>

RECURSIVE OidStr(_)
OidStr(n) ==
    IF n < 16 THEN << HexDigits[n + 1] >>
    ELSE OidStr(n \div 16) \o << HexDigits[(n % 16) + 1] >>

\* A URL is [scheme, host, path].  str() of a validated HttpUrl renders it
\* with the host in lower case and "/" for an empty path.
UrlStr(u) ==
    [scheme |-> u.scheme, host |-> Lower(u.host),
     path |-> IF u.path = "" THEN "/" ELSE u.path]


\* ------------------------------------------------------------------ inputs
Uploads ==
    { [filename |-> <<"M", ".", "Z", "I", "P">>, content |-> <<80>>,
       content_type |-> None],
      [filename |-> <<"m", ".", "t", "x", "t">>, content |-> <<80, 75>>,
       content_type |-> "text/plain"],
      [filename |-> <<"m", ".", "z", "i", "p">>, content |-> <<>>,
       content_type |-> "application/zip"] }

Urls ==
    { [scheme |-> "https", host |-> <<"h">>, path |-> "/m"],
      [scheme |-> "https", host |-> <<"H">>, path |-> ""] }

\* query parameter ?limit= of GET /api/models: <<n>>, or <<>> when absent
Limits == {<<>>, <<0>>, <<2>>}

\* text of an exception raised by a store call
StoreErrors == {"ServerSelectionTimeoutError"}

\* ------------------------------------------------------------------- state
VARIABLES
    db,           \* "None" or "connected": the module-level store handle
    modelfile,    \* collection db['modelfile']: a set of documents
    modelconfig,  \* collection db['modelconfig']: a set of documents
    now,          \* last value read from datetime.now(timezone.utc)
    nextId,       \* next store-assigned identifier
    pc,           \* pc[p]: where the handler of activation request p stands
    req,          \* req[p]: the arguments of activation request p
    rd,           \* where the handler of the running get-active request stands
    out,          \* the request that returned in the last step, if any did
    acts,         \* history: activation requests that wrote to the store
    alone,        \* history: no other request wrote during p's activation
    hist,         \* history: the last activations that ran one after another
    interleaved   \* history: two activations have overlapped

store == <<modelfile, modelconfig>>
vars == <<db, modelfile, modelconfig, now, nextId, pc, req, rd, out, acts,
          alone, hist, interleaved>>

\* ------------------------------------------------------------ store calls
\* update_many with a filter that matches nothing
UpdateManyNone(coll, t) == coll

\* update_many that sets updated_at only
UpdateManyStamp(coll, t) ==
    { IF d.active THEN [d EXCEPT !.updated_at = t] ELSE d : d \in coll }

\* delete_many in the place of update_many
UpdateManyDrops(coll, t) == { d \in coll : ~d.active }

\* collection.update_many({"active": True},
\*     {"$set": {"active": False, "updated_at": t}})
UpdateMany(coll, t) ==
    { IF d.active THEN [d EXCEPT !.active = FALSE, !.updated_at = t] ELSE d
      : d \in coll }

\* size taken from the encoded text
ModelFileEncodedSize(file) ==
    [name |-> file.filename,
     size |-> Len(B64Encode(file.content)),
     content_type |-> IF file.content_type = None THEN "application/zip"
                      ELSE file.content_type,
     data_b64 |-> B64Encode(file.content),
     active |-> TRUE]

\* ModelFile(name=..., size=..., content_type=..., data_b64=..., active=True)
ModelFile(file) ==
    [name |-> file.filename,
     size |-> Len(file.content),
     content_type |-> IF file.content_type = None THEN "application/zip"
                      ELSE file.content_type,
     data_b64 |-> B64Encode(file.content),
     active |-> TRUE]

\* url stored as it was sent
ModelConfigAsSent(u) == [source_type |-> "url", url |-> u, active |-> TRUE]

\* ModelConfig(source_type='url', url=str(payload.url), active=True)
ModelConfig(u) == [source_type |-> "url", url |-> UrlStr(u), active |-> TRUE]

\* create_document(collection, doc): insert doc with a fresh identifier and
\* its updated_at timestamp
CreateDocument(coll, doc, id, t) ==
    coll \cup { [f \in DOMAIN doc \cup {"_id", "updated_at"} |->
                  IF f = "_id" THEN id
                  ELSE IF f = "updated_at" THEN t ELSE doc[f]] }

\* the timestamps a call to datetime.now(timezone.utc) can return: a later
\* instant at every call
Clock == {now + 1}

\* sort ascending
MinUpdated(S) == { d \in S : \A e \in S : e.updated_at >= d.updated_at }

MaxUpdated(S) == { d \in S : \A e \in S : e.updated_at <= d.updated_at }

\* sort("updated_at", 1)
RECURSIVE SortedAsc(_)
SortedAsc(S) ==
    IF S = {} THEN { <<>> }
    ELSE UNION { { <<d>> \o t : t \in SortedAsc(S \ {d}) }
                 : d \in { x \in S : \A e \in S : e.updated_at >= x.updated_at } }

\* cursor.sort("updated_at", -1): every order of S by updated_at descending
RECURSIVE SortedDesc(_)
SortedDesc(S) ==
    IF S = {} THEN { <<>> }
    ELSE UNION { { <<d>> \o t : t \in SortedDesc(S \ {d}) } : d \in MaxUpdated(S) }

\* limit off by one
LimitPlusOne(s, n) == IF n = 0 \/ n >= Len(s) THEN s ELSE SubSeq(s, 1, n + 1)

\* cursor.limit(n); 0 means no limit
Limit(s, n) == IF n = 0 \/ n >= Len(s) THEN s ELSE SubSeq(s, 1, n)

\* collection.find_one({"active": True}, sort=[("updated_at", -1)]):
\* the documents it can return; empty when it returns None
FindOneActive(coll) == MaxUpdated({ d \in coll : d.active })

\* find({}, {"data_b64": 0}): the document without the excluded field
Projection(d) == [f \in DOMAIN d \ {"data_b64"} |-> d[f]]

\* d["id"] = str(d.pop("_id"))
WithStrId(d) ==
    [f \in (DOMAIN d \ {"_id"}) \cup {"id"} |->
        IF f = "id" THEN OidStr(d._id) ELSE d[f]]

\* limit: Optional[int] = 10, and "limit or 10"
DefaultLimit == 10

\* the lists list_models can return for a limit argument
ListResult(coll, limit) ==
    LET n == IF limit = <<>> \/ limit = <<0>> THEN DefaultLimit ELSE limit[1]
    IN { [i \in 1..Len(Limit(s, n)) |-> WithStrId(Projection(s[i]))]
         : s \in SortedDesc(coll) }

\* --------------------------------------------------------------- responses
NoReq == [op |-> "none"]
NoOut == [req |-> NoReq, resp |-> [kind |-> "none"]]

Ok(body) == [kind |-> "ok", status |-> 200, body |-> body]
HttpError(status, detail) == [kind |-> "http_error", status |-> status, detail |-> detail]
\* an exception that leaves the handler unhandled
Unhandled(e) == [kind |-> "exception", status |-> 0, detail |-> <<e>>]

\* ------------------------------------------------------------------- Init
\* A store that already served HistMax uploads one after another, every
\* store call at its own instant: upload i wrote at 3i-2 and 3i-1 and
\* inserted record i at 3i, so that record i was deactivated at 3i+1.
History ==
    { [_id |-> i, name |-> <<"m", ".", "z", "i", "p">>, size |-> 2,
       content_type |-> "application/zip", data_b64 |-> B64Encode(<<80, 75>>),
       active |-> (i = HistMax),
       updated_at |-> IF i = HistMax THEN 3 * i ELSE 3 * i + 1] : i \in 1..HistMax }

Init ==
    /\ db \in {None, "connected"}
    /\ \/ /\ modelfile = {} /\ now = 0 /\ nextId = 1 /\ acts = 0
       \/ /\ db = "connected"
          /\ modelfile = History /\ now = 3 * HistMax /\ nextId = HistMax + 1
          /\ acts = HistMax
    /\ modelconfig = {}
    /\ pc = [p \in Procs |-> "idle"]
    /\ req = [p \in Procs |-> NoReq]
    /\ rd = "idle"
    /\ out = NoOut
    /\ alone = [p \in Procs |-> FALSE]
    /\ hist = <<>>
    /\ interleaved = FALSE

\* ----------------------------------------------------------------- history
\* an activation that made its first store call and has not returned
Mid == {"upload_cfg", "upload_insert", "url_cfg", "url_insert"}

OthersMid(p) == \E q \in Procs \ {p} : pc[q] \in Mid

\* p is the next activation request to write to the store
NextToWrite(p) == pc[p] = "idle" /\ \A q \in Procs : q < p => pc[q] # "idle"

\* bookkeeping at the first store write of activation p
BeginActivation(p) ==
    /\ acts' = acts + 1
    /\ alone' = [q \in Procs |->
                   IF q = p THEN ~OthersMid(p)
                   ELSE IF pc[q] \in Mid THEN FALSE ELSE alone[q]]
    /\ interleaved' = (interleaved \/ OthersMid(p))
    /\ hist' = IF OthersMid(p) THEN <<>> ELSE hist

\* bookkeeping at the successful insert of activation p
EndActivation(p, entry) ==
    /\ hist' = IF alone[p]
               THEN (IF hist = <<>> THEN <<>> ELSE <<hist[Len(hist)]>>) \o <<entry>>
               ELSE <<>>
    /\ alone' = [alone EXCEPT ![p] = FALSE]
    /\ UNCHANGED <<acts, interleaved>>

\* the handler returns (or raises): the outcome of request r
Return(r, resp) == out' = [req |-> r, resp |-> resp]

\* a step within a handler: no request returns
NoReturn == out' = NoOut

\* ----------------------------------------------------- POST /api/models
UploadReq(f) == [op |-> "upload", file |-> f]

\* main.py 82-83: the filename check
UploadRejectExt ==
    /\ \E f \in Uploads :
         /\ ~IsZipName(f.filename)
         /\ Return(UploadReq(f), HttpError(400, <<"File must be a .zip archive">>))
    /\ UNCHANGED <<db, modelfile, modelconfig, now, nextId, pc, req, rd, acts,
                   alone, hist, interleaved>>

\* main.py 85-87: the empty-content check
UploadRejectEmpty ==
    /\ \E f \in Uploads :
         /\ IsZipName(f.filename)
         /\ Len(f.content) = 0
         /\ Return(UploadReq(f), HttpError(400, <<"Empty file">>))
    /\ UNCHANGED <<db, modelfile, modelconfig, now, nextId, pc, req, rd, acts,
                   alone, hist, interleaved>>

\* the empty-content check left out
UploadAcceptedAnySize(f) == IsZipName(f.filename)

\* an upload that passes both checks
UploadAccepted(f) == IsZipName(f.filename) /\ Len(f.content) # 0

\* main.py 100-101, caught by the handler of 107-108
UploadNoDb ==
    /\ db = None
    /\ \E f \in Uploads :
         /\ UploadAccepted(f)
         /\ Return(UploadReq(f),
                   HttpError(500, <<"Failed to store model: ", "500: Database not available">>))
    /\ UNCHANGED <<db, modelfile, modelconfig, now, nextId, pc, req, rd, acts,
                   alone, hist, interleaved>>

\* main.py 102
UploadDeactivateFiles(p) ==
    /\ NextToWrite(p)
    /\ db # None
    /\ \E f \in Uploads :
         /\ UploadAccepted(f)
         /\ req' = [req EXCEPT ![p] = UploadReq(f)]
    /\ \E t \in Clock :
         /\ modelfile' = UpdateMany(modelfile, t)
         /\ now' = t
    /\ pc' = [pc EXCEPT ![p] = "upload_cfg"]
    /\ BeginActivation(p)
    /\ NoReturn
    /\ UNCHANGED <<db, modelconfig, nextId, rd>>

\* main.py 103
UploadDeactivateConfigs(p) ==
    /\ pc[p] = "upload_cfg"
    /\ \E t \in Clock :
         /\ modelconfig' = UpdateMany(modelconfig, t)
         /\ now' = t
    /\ pc' = [pc EXCEPT ![p] = "upload_insert"]
    /\ NoReturn
    /\ UNCHANGED <<db, modelfile, nextId, req, rd, acts, alone, hist, interleaved>>

\* main.py 105-106
UploadInsert(p) ==
    /\ pc[p] = "upload_insert"
    /\ LET doc == ModelFile(req[p].file) IN
         /\ \E t \in Clock :
              /\ modelfile' = CreateDocument(modelfile, doc, nextId, t)
              /\ now' = t
         /\ Return(req[p],
                   Ok([id |-> OidStr(nextId), type |-> "db", name |-> doc.name,
                       size |-> doc.size, content_type |-> doc.content_type,
                       active |-> TRUE]))
         /\ EndActivation(p, [type |-> "db", oid |-> nextId, file |-> req[p].file])
    /\ nextId' = nextId + 1
    /\ pc' = [pc EXCEPT ![p] = "done"]
    /\ req' = [req EXCEPT ![p] = NoReq]
    /\ UNCHANGED <<db, modelconfig, rd>>

\* main.py 107-108: the first store call, of 102, raises
UploadStoreFailFirst ==
    /\ db # None
    /\ \E e \in StoreErrors : \E f \in Uploads :
         /\ UploadAccepted(f)
         /\ Return(UploadReq(f), HttpError(500, <<"Failed to store model: ", e>>))
    /\ UNCHANGED <<db, modelfile, modelconfig, now, nextId, pc, req, rd, acts,
                   alone, hist, interleaved>>

\* main.py 107-108: the store call of 103 or 105 raises
UploadStoreFail(p) ==
    /\ pc[p] \in {"upload_cfg", "upload_insert"}
    /\ \E e \in StoreErrors :
         Return(req[p], HttpError(500, <<"Failed to store model: ", e>>))
    /\ pc' = [pc EXCEPT ![p] = "done"]
    /\ req' = [req EXCEPT ![p] = NoReq]
    /\ hist' = <<>>
    /\ alone' = [alone EXCEPT ![p] = FALSE]
    /\ UNCHANGED <<db, modelfile, modelconfig, now, nextId, rd, acts, interleaved>>

\* ------------------------------------------------- POST /api/models/url
UrlReq(u) == [op |-> "url", url |-> u]

\* main.py 118-119
UrlNoDb ==
    /\ db = None
    /\ \E u \in Urls : Return(UrlReq(u), HttpError(500, <<"Database not available">>))
    /\ UNCHANGED <<db, modelfile, modelconfig, now, nextId, pc, req, rd, acts,
                   alone, hist, interleaved>>

\* main.py 122
UrlDeactivateFiles(p) ==
    /\ NextToWrite(p)
    /\ db # None
    /\ \E u \in Urls : req' = [req EXCEPT ![p] = UrlReq(u)]
    /\ \E t \in Clock :
         /\ modelfile' = UpdateMany(modelfile, t)
         /\ now' = t
    /\ pc' = [pc EXCEPT ![p] = "url_cfg"]
    /\ BeginActivation(p)
    /\ NoReturn
    /\ UNCHANGED <<db, modelconfig, nextId, rd>>

\* main.py 123
UrlDeactivateConfigs(p) ==
    /\ pc[p] = "url_cfg"
    /\ \E t \in Clock :
         /\ modelconfig' = UpdateMany(modelconfig, t)
         /\ now' = t
    /\ pc' = [pc EXCEPT ![p] = "url_insert"]
    /\ NoReturn
    /\ UNCHANGED <<db, modelfile, nextId, req, rd, acts, alone, hist, interleaved>>

\* main.py 125-127
UrlInsert(p) ==
    /\ pc[p] = "url_insert"
    /\ LET cfg == ModelConfig(req[p].url) IN
         /\ \E t \in Clock :
              /\ modelconfig' = CreateDocument(modelconfig, cfg, nextId, t)
              /\ now' = t
         /\ Return(req[p],
                   Ok([id |-> OidStr(nextId), type |-> "url", url |-> cfg.url,
                       active |-> TRUE]))
         /\ EndActivation(p, [type |-> "url", oid |-> nextId, url |-> req[p].url])
    /\ nextId' = nextId + 1
    /\ pc' = [pc EXCEPT ![p] = "done"]
    /\ req' = [req EXCEPT ![p] = NoReq]
    /\ UNCHANGED <<db, modelfile, rd>>

\* the first store call, of 122, raises: nothing in set_model_url catches it
UrlStoreFailFirst ==
    /\ db # None
    /\ \E e \in StoreErrors : \E u \in Urls : Return(UrlReq(u), Unhandled(e))
    /\ UNCHANGED <<db, modelfile, modelconfig, now, nextId, pc, req, rd, acts,
                   alone, hist, interleaved>>

\* the store call of 123 or 126 raises: nothing in set_model_url catches it
UrlStoreFail(p) ==
    /\ pc[p] \in {"url_cfg", "url_insert"}
    /\ \E e \in StoreErrors : Return(req[p], Unhandled(e))
    /\ pc' = [pc EXCEPT ![p] = "done"]
    /\ req' = [req EXCEPT ![p] = NoReq]
    /\ hist' = <<>>
    /\ alone' = [alone EXCEPT ![p] = FALSE]
    /\ UNCHANGED <<db, modelfile, modelconfig, now, nextId, rd, acts, interleaved>>

\* ------------------------------------------------ GET /api/models/active
ActiveReq == [op |-> "active"]

\* main.py 133-134
GetActiveNoDb ==
    /\ rd = "idle"
    /\ db = None
    /\ Return(ActiveReq, HttpError(500, <<"Database not available">>))
    /\ UNCHANGED <<db, modelfile, modelconfig, now, nextId, pc, req, rd, acts,
                   alone, hist, interleaved>>

\* main.py 137-144
GetActiveConfig ==
    /\ rd = "idle"
    /\ db # None
    /\ IF FindOneActive(modelconfig) # {}
       THEN /\ \E cfg \in FindOneActive(modelconfig) :
                 Return(ActiveReq,
                        Ok([type |-> "url", url |-> cfg.url, active |-> TRUE,
                            updated_at |-> cfg.updated_at]))
            /\ rd' = rd
       ELSE /\ rd' = "active_file"
            /\ NoReturn
    /\ UNCHANGED <<db, modelfile, modelconfig, now, nextId, pc, req, acts,
                   alone, hist, interleaved>>

\* main.py 147-159
GetActiveFile ==
    /\ rd = "active_file"
    /\ IF FindOneActive(modelfile) # {}
       THEN \E doc \in FindOneActive(modelfile) :
              Return(ActiveReq,
                     Ok([type |-> "db", id |-> OidStr(doc._id), name |-> doc.name,
                         size |-> doc.size, content_type |-> doc.content_type,
                         active |-> TRUE, updated_at |-> doc.updated_at]))
       ELSE Return(ActiveReq, Ok([active |-> FALSE]))
    /\ rd' = "idle"
    /\ UNCHANGED <<db, modelfile, modelconfig, now, nextId, pc, req, acts,
                   alone, hist, interleaved>>

\* find_one of 137 or 147 raises: nothing in get_active_model catches it
GetActiveStoreFail ==
    /\ db # None
    /\ \E e \in StoreErrors : Return(ActiveReq, Unhandled(e))
    /\ rd' = "idle"
    /\ UNCHANGED <<db, modelfile, modelconfig, now, nextId, pc, req, acts,
                   alone, hist, interleaved>>

\* ------------------------------------------------------- GET /api/models
ListReq(n) == [op |-> "list", limit |-> n]

\* main.py 165-166
ListModelsNoDb ==
    /\ db = None
    /\ \E n \in Limits : Return(ListReq(n), HttpError(500, <<"Database not available">>))
    /\ UNCHANGED <<db, modelfile, modelconfig, now, nextId, pc, req, rd, acts,
                   alone, hist, interleaved>>

\* main.py 167-172
ListModels ==
    /\ db # None
    /\ \E n \in Limits :
         \E result \in ListResult(modelfile, n) : Return(ListReq(n), Ok(result))
    /\ UNCHANGED <<db, modelfile, modelconfig, now, nextId, pc, req, rd, acts,
                   alone, hist, interleaved>>

\* find of 167 raises: nothing in list_models catches it
ListModelsStoreFail ==
    /\ db # None
    /\ \E n \in Limits : \E e \in StoreErrors : Return(ListReq(n), Unhandled(e))
    /\ UNCHANGED <<db, modelfile, modelconfig, now, nextId, pc, req, rd, acts,
                   alone, hist, interleaved>>

\* ------------------------------------------------------------------- Next
Activation(p) ==
    \/ UploadDeactivateFiles(p)
    \/ UploadDeactivateConfigs(p)
    \/ UploadInsert(p)
    \/ UploadStoreFail(p)
    \/ UrlDeactivateFiles(p)
    \/ UrlDeactivateConfigs(p)
    \/ UrlInsert(p)
    \/ UrlStoreFail(p)

Next ==
    \/ \E p \in Procs : Activation(p)
    \/ UploadRejectExt
    \/ UploadRejectEmpty
    \/ UploadNoDb
    \/ UploadStoreFailFirst
    \/ UrlNoDb
    \/ UrlStoreFailFirst
    \/ GetActiveNoDb
    \/ GetActiveConfig
    \/ GetActiveFile
    \/ GetActiveStoreFail
    \/ ListModelsNoDb
    \/ ListModels
    \/ ListModelsStoreFail

Spec == Init /\ [][Next]_vars

\* ---------------------------------------------------------------- notions
ActiveFiles == { d \in modelfile : d.active }
ActiveConfigs == { d \in modelconfig : d.active }
NumActive == Cardinality(ActiveFiles) + Cardinality(ActiveConfigs)

\* no activation stands between its first store call and its return
NoneMid == \A p \in Procs : pc[p] \notin Mid

\* a request returned in this step
Returned(op) == out'.req.op = op
ReturnedOk(op) == Returned(op) /\ out'.resp.kind = "ok"

\* the last activation ran alone, inserted a record of this type, and no
\* activation has written since
LastAlone(type) ==
    /\ NoneMid
    /\ hist # <<>>
    /\ hist[Len(hist)].type = type

\* ------------------------------------------------------------------ C1
\* C1 (as stated): in every reachable state, under any interleaving of
\* activation requests, at most one record of the two collections is active.
C1_AtMostOneActive == NumActive <= 1

\* C1 (amended): at most one record of the two collections is active in
\* every state reached without two activation requests overlapping, the
\* states between the store calls of a request included.
C1_AtMostOneActiveUnlessOverlapped == ~interleaved => NumActive <= 1

\* a second activation has run after the first, none overlapping
C1_Witness ==
    /\ ~interleaved
    /\ \A p \in Procs : pc[p] = "done"
    /\ acts = nextId - 1
    /\ NumActive = 1

\* ------------------------------------------------------------------ C2
\* the records that carry the identifier, name and size of a history entry
\* of an upload
FileOf(e) ==
    { d \in modelfile : /\ d._id = e.oid
                        /\ d.name = e.file.filename
                        /\ d.size = Len(e.file.content) }

C2_StoreAfterUpload ==
    LastAlone("db") =>
        /\ ActiveConfigs = {}
        /\ Cardinality(ActiveFiles) = 1
        /\ ActiveFiles \subseteq FileOf(hist[Len(hist)])

C2_GetActiveAfterUpload ==
    (LastAlone("db") /\ ReturnedOk("active")) =>
        LET e == hist[Len(hist)]
            body == out'.resp.body
        IN /\ body.active
           /\ body.type = "db"
           /\ body.id = OidStr(e.oid)
           /\ body.name = e.file.filename
           /\ body.size = Len(e.file.content)

ListBodies == UNION { ListResult(modelfile, n) : n \in Limits }

\* file record f is within the first n records by updated_at
WithinLimit(f, n) ==
    Cardinality({ d \in modelfile : d.updated_at >= f.updated_at }) <= n

C3_FileThenUrl ==
    (NoneMid /\ Len(hist) = 2 /\ hist[1].type = "db" /\ hist[2].type = "url") =>
        /\ ActiveFiles = {}
        /\ Cardinality(ActiveConfigs) = 1
        /\ \A c \in ActiveConfigs : c._id = hist[2].oid
        /\ \E f \in FileOf(hist[1]) : ~f.active

C3_ListAfterFileThenUrl ==
    (NoneMid /\ Len(hist) = 2 /\ hist[1].type = "db" /\ hist[2].type = "url"
       /\ ReturnedOk("list")) =>
        LET body == out'.resp.body
            lim == out'.req.limit
            n == IF lim = <<>> \/ lim = <<0>> THEN 10 ELSE lim[1]
        IN \A f \in FileOf(hist[1]) :
             WithinLimit(f, n) =>
                \E i \in 1..Len(body) :
                   /\ body[i].id = OidStr(f._id)
                   /\ body[i].active = FALSE

\* C3: after an upload and then a URL activation, each run alone and
\* successful, exactly one record is active, the new URL config record; the
\* file record of the upload is inactive, is still in the file collection,
\* and is in the answer of list-files when it is within the limit.
C3_FileThenUrlLeavesUrl == [](C3_FileThenUrl) /\ [][C3_ListAfterFileThenUrl]_vars

\* list-files has answered after an upload followed by a URL activation
C3_Witness ==
    /\ NoneMid /\ Len(hist) = 2 /\ hist[1].type = "db" /\ hist[2].type = "url"
    /\ out.req.op = "list"
    /\ out.resp.kind = "ok"
    /\ Len(out.resp.body) > 0
    /\ out.resp.body[1].id = OidStr(hist[1].oid)

\* ------------------------------------------------------------------ C4
\* a get-active request returned from its first query
ReturnedFromConfig == ReturnedOk("active") /\ rd = "idle"

C4_Original ==
    (LastAlone("url") /\ ReturnedFromConfig) =>
        LET body == out'.resp.body
        IN /\ body.type = "url"
           /\ body.active
           /\ body.url = hist[Len(hist)].url

Rendered(u) ==
    /\ u.host = [i \in 1..Len(u.host) |-> LowerChar(u.host[i])]
    /\ u.path # ""

C4_Amended ==
    (LastAlone("url") /\ ReturnedFromConfig) =>
        LET body == out'.resp.body
            u == hist[Len(hist)].url
        IN /\ body.type = "url"
           /\ body.active
           /\ body.url.scheme = u.scheme
           /\ Len(body.url.host) = Len(u.host)
           /\ \A i \in 1..Len(u.host) : body.url.host[i] = LowerChar(u.host[i])
           /\ body.url.path = (IF u.path = "" THEN "/" ELSE u.path)
           /\ Rendered(u) => body.url = u

Rejected400 == out'.resp.kind = "http_error" /\ out'.resp.status = 400

C5_Original ==
    /\ \A p \in Procs :
         pc'[p] \in {"upload_cfg", "upload_insert"} =>
            /\ EndsWith(req'[p].file.filename, DotZip)
            /\ Len(req'[p].file.content) # 0
    /\ (Returned("upload")
          /\ (~EndsWith(out'.req.file.filename, DotZip)
                \/ Len(out'.req.file.content) = 0)) =>
            /\ Rejected400
            /\ UNCHANGED store

\* C5 (as stated): an upload whose filename does not end in ".zip" or whose
\* content is empty makes no store call, is answered with 400 and leaves
\* the store unchanged.
C5_RejectsNonZipOrEmpty == [][C5_Original]_vars

C5_Amended ==
    /\ \A p \in Procs :
         pc'[p] \in {"upload_cfg", "upload_insert"} =>
            /\ EndsWith([i \in 1..Len(req'[p].file.filename) |->
                            LowerChar(req'[p].file.filename[i])], DotZip)
            /\ Len(req'[p].file.content) # 0
    /\ (Returned("upload")
          /\ (~EndsWith([i \in 1..Len(out'.req.file.filename) |->
                            LowerChar(out'.req.file.filename[i])], DotZip)
                \/ Len(out'.req.file.content) = 0)) =>
            /\ Rejected400
            /\ UNCHANGED store

\* C5 (amended): an upload whose filename, put in lower case, does not end
\* in ".zip", or whose content is empty, makes no store call, is answered
\* with 400 and leaves the store unchanged.
C5_RejectsNonZipIgnoringCaseOrEmpty == [][C5_Amended]_vars

\* an upload has been rejected with 400 while a record was active
C5_Witness ==
    /\ out.req.op = "upload"
    /\ out.resp.kind = "http_error" /\ out.resp.status = 400
    /\ NumActive = 1

\* ------------------------------------------------------------------ C6
Latest(S) == { d \in S : \A e \in S : d.updated_at >= e.updated_at }

C6_Step ==
    /\ (rd = "idle" /\ rd' = "active_file") => ActiveConfigs = {}
    /\ ReturnedFromConfig =>
         /\ out'.resp.status = 200
         /\ \E c \in Latest(ActiveConfigs) :
              /\ out'.resp.body.type = "url"
              /\ out'.resp.body.url = c.url
              /\ out'.resp.body.active
    /\ (rd = "active_file" /\ rd' = "idle" /\ out'.resp.kind # "exception") =>
            /\ out'.req.op = "active"
            /\ out'.resp.kind = "ok" /\ out'.resp.status = 200
            /\ IF ActiveFiles # {}
               THEN \E d \in Latest(ActiveFiles) :
                      /\ out'.resp.body.type = "db"
                      /\ out'.resp.body.id = OidStr(d._id)
                      /\ out'.resp.body.name = d.name
                      /\ out'.resp.body.size = d.size
                      /\ out'.resp.body.active
               ELSE out'.resp.body = [active |-> FALSE]
    /\ (Returned("active") \/ rd' # rd) => UNCHANGED store

\* C6: the first query of get-active answers type "url" with the url of the
\* active config record of greatest updated_at when the config collection
\* has an active record; otherwise the second query answers type "db" with
\* id, name and size of the active file record of greatest updated_at when
\* the file collection has one, and {active: false} with status 200
\* otherwise.  get-active never modifies the store.
C6_GetActiveResult == [][C6_Step]_vars

\* get-active has answered while two config records were active
C6_Witness ==
    /\ Cardinality(ActiveConfigs) = 2
    /\ out.req.op = "active" /\ out.resp.kind = "ok"
    /\ \E c \in ActiveConfigs :
         /\ out.resp.body.url = c.url
         /\ \E e \in ActiveConfigs : e.updated_at < c.updated_at /\ e.url # c.url

\* get-active has answered {active: false} on a store without activation
C6_EmptyWitness ==
    /\ modelfile = {} /\ modelconfig = {}
    /\ out.req.op = "active" /\ out.resp = Ok([active |-> FALSE])

\* ------------------------------------------------------------------ C7
InsertFailedAlone(p) ==
    /\ pc[p] \in {"upload_insert", "url_insert"}
    /\ pc'[p] = "done"
    /\ out'.resp.kind # "ok"
    /\ alone[p]

InsertedAlone(p) ==
    /\ pc[p] \in {"upload_insert", "url_insert"}
    /\ pc'[p] = "done"
    /\ out'.resp.kind = "ok"
    /\ alone[p]

C7_Step ==
    /\ \A p \in Procs :
         InsertFailedAlone(p) => (ActiveFiles' = {} /\ ActiveConfigs' = {})
    /\ (NumActive = 0 /\ NumActive' # 0) =>
         \E p \in Procs : /\ pc[p] \in {"upload_insert", "url_insert"}
                          /\ pc'[p] = "done"
                          /\ out'.resp.kind = "ok"
    /\ \A p \in Procs :
         InsertedAlone(p) =>
            /\ Cardinality(ActiveFiles') + Cardinality(ActiveConfigs') = 1
            /\ \A d \in ActiveFiles' \cup ActiveConfigs' :
                 /\ d._id = nextId
                 /\ OidStr(d._id) = out'.resp.body.id

C7_Witness ==
    /\ NoneMid
    /\ out.req.op \in {"upload", "url"}
    /\ out.resp.kind # "ok" /\ out.resp.status # 400
    /\ NumActive = 0
    /\ modelfile # {}

C8_StoreExceptionNeverRaw ==
    /\ out.resp.kind # "exception"
    /\ out.resp.kind = "http_error" => out.resp.status \in {400, 500}

\* ------------------------------------------------------------------ C9
C9_Step ==
    /\ ReturnedOk("list") =>
         LET body == out'.resp.body
             lim == out'.req.limit
         IN /\ lim = <<>> => Len(body) <= 10
            /\ (lim # <<>> /\ lim[1] > 0) => Len(body) <= lim[1]
            /\ \A i \in 1..Len(body) :
                 /\ "data_b64" \notin DOMAIN body[i]
                 /\ "id" \in DOMAIN body[i]
                 /\ \E d \in modelfile :
                      /\ body[i].id = OidStr(d._id)
                      /\ body[i].name = d.name
                      /\ body[i].updated_at = d.updated_at
                      /\ body[i].active = d.active
            /\ \A i, j \in 1..Len(body) :
                 i < j => /\ body[i].updated_at >= body[j].updated_at
                          /\ body[i].id # body[j].id
            /\ \A d \in modelfile :
                 (\A i \in 1..Len(body) : body[i].id # OidStr(d._id)) =>
                    /\ Len(body) > 0
                    /\ d.updated_at <= body[Len(body)].updated_at
    /\ Returned("list") => UNCHANGED store

\* C9: list-files without limit returns at most 10 records and with a limit
\* n > 0 at most n, all of the file collection, the most recently updated
\* first and none more recent left out, each without the field data_b64 and
\* with its store identifier as a string under "id"; it never modifies the
\* store.
C9_ListFiles == [][C9_Step]_vars

\* list-files without limit has cut a longer collection down to 10 records
C9_Witness ==
    /\ out.req = [op |-> "list", limit |-> <<>>]
    /\ out.resp.kind = "ok"
    /\ Len(out.resp.body) = 10
    /\ Cardinality(modelfile) > 10
    /\ out.resp.body[1].updated_at = now

\* ----------------------------------------------------------------- C10
AllDocs == modelfile \cup modelconfig

C10_LastInsertedActive ==
    (NoneMid /\ acts = nextId - 1 /\ nextId > 1) =>
        /\ NumActive >= 1
        /\ \E d \in ActiveFiles \cup ActiveConfigs : d._id = nextId - 1

C10_Step ==
    /\ \A d \in modelfile :
         \E e \in modelfile' : e._id = d._id /\ (~d.active => ~e.active)
    /\ \A d \in modelconfig :
         \E e \in modelconfig' : e._id = d._id /\ (~d.active => ~e.active)

\* C10: when every activation that wrote to the store has inserted its
\* record and none is running, the record inserted last is active; a record
\* that is inactive never becomes active again, and no record is ever
\* removed from a collection.
C10_LastWins == [](C10_LastInsertedActive) /\ [][C10_Step]_vars

\* two overlapping activations have both returned
C10_Witness ==
    /\ NoneMid /\ interleaved
    /\ acts = nextId - 1
    /\ \A p \in Procs : pc[p] = "done"
    /\ \E d \in ActiveFiles \cup ActiveConfigs : d._id = nextId - 1
    /\ \E d \in modelfile : ~d.active

====
